---- MODULE Spec2Model ----
(***************************************************************************)
(* Model of internal/ethapi/mint.go: the MintAPI.Mint RPC handler, its     *)
(* nullifier store (api.b.ChainDb()), the external proof verifier          *)
(* ("bb verify") and the backend's transaction pool.                       *)
(*                                                                         *)
(* Each handler slot runs one Mint call at a time; a call advances through *)
(* the points where Mint touches something outside itself: the store read, *)
(* the verifier process, the store write, the nonce fetch, the submission. *)
(* Big integers (Go's big.Int) are their big-endian magnitude bytes, as   *)
(* big.Int.Bytes() returns them; an absent pointer is Nil, a present one   *)
(* Some(x).                                                                *)
(***************************************************************************)
EXTENDS Integers, Sequences, FiniteSets, TLC

VARIABLES
    conc,           \* TRUE when handlers may overlap, FALSE when calls come one after another
    bypassEnabled,  \* the deployment's bypass setting; MintAPI has no field or build tag for it
    store,          \* api.b.ChainDb(): key -> value, for the keys ever Put
    pool,           \* the backend's pending transactions of minterAddress, in submission order
    nonceLock,      \* api.nonceLock: the addresses currently locked
    started,        \* number of Mint calls received so far
    minted,         \* the successful answers so far, in order, each with its request's
                    \* secret and explicit nullifier
    rejected,       \* the nullifiers (> 0) of the calls answered ErrProofVerificationFailed
    calls           \* per handler slot: the Mint call it is running

vars == <<conc, bypassEnabled, store, pool, nonceLock, started, minted, rejected, calls>>

----------------------------------------------------------------------------
(* Bounds and input domains *)

MaxCalls == 2

\* the callers of the calls numbered up to MaxCancelled may cancel
MaxCancelled == 1

Handlers == {1, 2}

Nil == <<>>
Some(x) == <<x>>
IsNil(o) == o = <<>>
Val(o) == o[1]

\* common.Big0 and small big.Int values, as magnitude bytes
Big0 == <<>>
Big1 == <<1>>

Recipient == "0x1234567890123456789012345678901234567890"
minterAddress == "minter"

Amounts == {Nil, Some(-1), Some(0), Some(2)}
Nullifiers == {Nil, Some(Big0), Some(Big1)}
Secrets == {Nil, Some(Big1)}

----------------------------------------------------------------------------
(* The file system the handler sees. It is read-only for the service.      *)

\* the text "0x1234567890abcdef" of extractPublicInputs' mock answer
MockNullifierText ==
    <<"0", "x", "1", "2", "3", "4", "5", "6", "7", "8", "9", "0", "a", "b", "c", "d", "e", "f">>

\* file contents: raw names the bytes, json is the object json.Unmarshal
\* yields for them (Nil when the bytes are no JSON object)
MockData == [raw |-> "mock-proof-data", json |-> Nil]
VkData == [raw |-> "mock-vk-data", json |-> Nil]
RawProof == [raw |-> "binary-proof", json |-> Nil]
JsonProof ==
    [raw |-> "{\"nullifier\":\"0x2\"}",
     json |-> Some([nullifier |-> [type |-> "string", text |-> <<"0", "x", "2">>]])]
\* a JSON proof whose "nullifier" is a number, and one whose "nullifier" is
\* a string without the 0x prefix
JsonNumberProof ==
    [raw |-> "{\"nullifier\":1}",
     json |-> Some([nullifier |-> [type |-> "number", text |-> <<"1">>]])]
JsonBadHexProof ==
    [raw |-> "{\"nullifier\":\"1f\"}",
     json |-> Some([nullifier |-> [type |-> "string", text |-> <<"1", "f">>]])]

\* regular files, by path (a path is its sequence of components)
Files ==
    (<<"mock", "proof">> :> MockData) @@ (<<"mock", "vk">> :> VkData) @@
    (<<"json", "proof">> :> JsonProof) @@ (<<"json", "vk">> :> VkData) @@
    (<<"raw", "proof">> :> RawProof) @@ (<<"raw", "vk">> :> VkData) @@
    (<<"jsonnum", "proof">> :> JsonNumberProof) @@ (<<"jsonnum", "vk">> :> VkData) @@
    (<<"jsonbad", "proof">> :> JsonBadHexProof) @@ (<<"jsonbad", "vk">> :> VkData) @@
    (<<"novk", "proof">> :> RawProof) @@
    (<<"file">> :> RawProof)

\* ProofData values of requests; <<>> is the empty string
ProofPaths ==
    {<<>>, <<"missing", "proof">>, <<"file", "proof">>, <<"novk", "proof">>,
     <<"mock", "proof">>, <<"json", "proof">>, <<"raw", "proof">>,
     <<"jsonnum", "proof">>, <<"jsonbad", "proof">>}

Requests ==
    [To : {Recipient}, Amount : Amounts, ProofData : ProofPaths,
     Nullifier : Nullifiers, Secret : Secrets]

----------------------------------------------------------------------------
(* os.Stat, filepath, readFile *)

IsPrefix(p, q) == Len(p) <= Len(q) /\ SubSeq(q, 1, Len(p)) = p

\* directories are the proper prefixes of the regular files' paths
IsDir(p) == \E f \in DOMAIN Files : Len(p) < Len(f) /\ IsPrefix(p, f)

\* os.Stat(path): "ok", "ENOENT" (os.IsNotExist; the empty path too), or
\* "ENOTDIR" when a component of the path is a regular file (an error for
\* which os.IsNotExist is false)
Stat(path) ==
    IF path = <<>> THEN "ENOENT"
    ELSE IF path \in DOMAIN Files \/ IsDir(path) THEN "ok"
    ELSE IF \E f \in DOMAIN Files : Len(f) < Len(path) /\ IsPrefix(f, path) THEN "ENOTDIR"
    ELSE "ENOENT"

IsNotExist(st) == st = "ENOENT"

\* filepath.Join(filepath.Dir(proofData), "vk")
VkPath(proofData) == Append(SubSeq(proofData, 1, Len(proofData) - 1), "vk")

\* readFile(path): Some(contents), or Nil for an error
readFile(path) == IF path \in DOMAIN Files THEN Some(Files[path]) ELSE Nil

----------------------------------------------------------------------------
(* hexutil.Big.UnmarshalText *)

HexDigits ==
    ("0" :> 0) @@ ("1" :> 1) @@ ("2" :> 2) @@ ("3" :> 3) @@ ("4" :> 4) @@ ("5" :> 5) @@
    ("6" :> 6) @@ ("7" :> 7) @@ ("8" :> 8) @@ ("9" :> 9) @@ ("a" :> 10) @@ ("b" :> 11) @@
    ("c" :> 12) @@ ("d" :> 13) @@ ("e" :> 14) @@ ("f" :> 15) @@ ("A" :> 10) @@ ("B" :> 11) @@
    ("C" :> 12) @@ ("D" :> 13) @@ ("E" :> 14) @@ ("F" :> 15)

\* big.Int keeps no leading zero bytes
RECURSIVE Normalize(_)
Normalize(bytes) ==
    IF bytes # <<>> /\ bytes[1] = 0 THEN Normalize(Tail(bytes)) ELSE bytes

\* the bytes of an even-length run of hex digits
RECURSIVE NibblesToBytes(_)
NibblesToBytes(ds) ==
    IF ds = <<>> THEN <<>>
    ELSE <<16 * HexDigits[ds[1]] + HexDigits[ds[2]]>> \o NibblesToBytes(Tail(Tail(ds)))

\* Some(0) for the empty text, which is allowed; Some(value) when text is
\* "0x" followed by 1..64 hex digits without a leading zero (a lone "0"
\* excepted); Nil for every error
UnmarshalText(text) ==
    IF text = <<>> THEN Some(Big0)
    ELSE IF Len(text) < 2 \/ text[1] # "0" \/ text[2] \notin {"x", "X"} THEN Nil
    ELSE LET digits == SubSeq(text, 3, Len(text)) IN
         IF digits = <<>> THEN Nil
         ELSE IF Len(digits) > 1 /\ digits[1] = "0" THEN Nil
         ELSE IF Len(digits) > 64 THEN Nil
         ELSE IF \E i \in 1..Len(digits) : digits[i] \notin DOMAIN HexDigits THEN Nil
         ELSE Some(Normalize(NibblesToBytes(
                  IF Len(digits) % 2 = 1 THEN <<"0">> \o digits ELSE digits)))

----------------------------------------------------------------------------
(* extractPublicInputs, computeNullifier, getNullifierKey *)

\* extractPublicInputs answering with the mock inputs for every file that is
\* not JSON
extractPublicInputsAnyRaw(proofPath) ==
    LET data == readFile(proofPath) IN
    IF IsNil(data) THEN Nil
    ELSE IF ~IsNil(Val(data).json) THEN Val(data).json
    ELSE Some([nullifier |-> [type |-> "string", text |-> MockNullifierText]])

\* Some(map of public inputs), or Nil for an error
extractPublicInputs(proofPath) ==
    LET data == readFile(proofPath) IN
    IF IsNil(data) THEN Nil
    ELSE IF ~IsNil(Val(data).json) THEN Val(data).json
    ELSE IF Val(data).raw = "mock-proof-data"
         THEN Some([nullifier |-> [type |-> "string", text |-> MockNullifierText]])
    ELSE Nil

\* crypto.Keccak256Hash([]byte{0x01}, secret.Bytes()) for the secrets of the model
Keccak256 ==
    (<<1>> :>
        <<95, 231, 249, 119, 231, 29, 186, 46, 161, 166, 142, 33, 5, 123, 238, 187,
          155, 226, 172, 48, 198, 65, 10, 163, 141, 79, 63, 190, 65, 220, 255, 210>>) @@
    (<<1, 1>> :>
        <<69, 53, 160, 78, 146, 58, 247, 94, 100, 169, 246, 205, 251, 146, 32, 4,
          180, 11, 238, 192, 100, 157, 54, 207, 110, 160, 149, 183, 196, 151, 92, 174>>) @@
    (<<1, 2>> :>
        <<34, 174, 109, 166, 180, 130, 249, 177, 177, 155, 11, 137, 124, 63, 212, 56,
          132, 24, 10, 28, 94, 227, 97, 225, 16, 122, 27, 198, 53, 100, 157, 218>>)

\* computeNullifier(secret), for a non-nil secret
computeNullifier(secret) == Normalize(Keccak256[<<1>> \o secret])

\* []byte("nullifier-")
nullifierPrefix == <<110, 117, 108, 108, 105, 102, 105, 101, 114, 45>>

\* mint.go:57-58: cap(nullifierPrefix). The slice is package-level data made
\* from a string constant, laid out with its length as its capacity
capNullifierPrefix == Len(nullifierPrefix)

\* getNullifierKey with the prefix put after the nullifier's bytes
getNullifierKeySuffixed(nullifier) == nullifier \o nullifierPrefix

getNullifierKey(nullifier) == nullifierPrefix \o nullifier

\* HasNullifier without the comparison with zero
HasNullifierNonNil(nullifier) == ~IsNil(nullifier)

\* nullifier != nil && nullifier.Cmp(common.Big0) > 0
HasNullifier(nullifier) == ~IsNil(nullifier) /\ Val(nullifier) # Big0

----------------------------------------------------------------------------
(* Errors Mint returns *)

ErrInvalidAmount == "mint amount must be greater than 0"
ErrMissingProof == "proof data is required"
ErrProofNotFound == "proof file does not exist"
ErrVkNotFound == "verification key file does not exist"
ErrNullifierAlreadyUsed == "nullifier has already been used (double-spending attempt)"
ErrProofVerificationFailed == "zero-knowledge proof verification failed"
ErrGetPoolNonce == "backend: GetPoolNonce failed"
ErrSignTx == "types.SignTx failed"
ErrSendTx == "backend: SendTx failed"

----------------------------------------------------------------------------
(* The store and the backend, as Mint uses them *)

EmptyStore == [k \in {} |-> <<>>]

\* db.Get(key): Some(value), or Nil when the key is not found
Get(db, key) == IF key \in DOMAIN db THEN Some(db[key]) ELSE Nil

\* db.Put(key, value), when it succeeds
Put(db, key, value) ==
    [k \in DOMAIN db \cup {key} |-> IF k = key THEN value ELSE db[k]]

\* api.b.GetPoolNonce(ctx, minterAddress): the first nonce no pending
\* transaction of the account uses
GetPoolNonce(txs) ==
    CHOOSE n \in 0..Len(txs) :
        /\ \A i \in 1..Len(txs) : txs[i].nonce # n
        /\ \A m \in 0..(n - 1) : \E i \in 1..Len(txs) : txs[i].nonce = m

\* api.b.SendTx(ctx, signedTx), when it returns nil: the transaction is pending
SendTx(txs, tx) == Append(txs, tx)

\* NewTransaction with the amount and the gas price in each other's place
NewTransactionSwapped(nonce, req) ==
    [nonce |-> nonce, to |-> req.To, value |-> 1,
     gas |-> 21000, gasPrice |-> Val(req.Amount), from |-> minterAddress]

\* types.NewTransaction(nonce, req.To, req.Amount.ToInt(), 21000, big.NewInt(1), nil),
\* signed with minterKey
NewTransaction(nonce, req) ==
    [nonce |-> nonce, to |-> req.To, value |-> Val(req.Amount),
     gas |-> 21000, gasPrice |-> 1, from |-> minterAddress]

----------------------------------------------------------------------------
(* A handler slot *)

\* reads counts the readFile calls, the other fields the calls to the store,
\* the verifier and the backend
NoEffects ==
    [reads |-> 0, gets |-> 0, puts |-> 0, verifies |-> 0, nonces |-> 0, sends |-> 0]

\* a slot with no call in it; key is the key last passed to the store
Idle ==
    [pc |-> "idle", req |-> Nil, nullifier |-> Nil, exit |-> "none", bypassed |-> FALSE,
     putErr |-> FALSE, nonce |-> Nil, err |-> "", resp |-> Nil, eff |-> NoEffects,
     before |-> EmptyStore, callNo |-> 0, cancelled |-> FALSE, key |-> Nil]

Req(h) == Val(calls[h].req)

\* the call returns (nil, err)
Fail(call, err) == [call EXCEPT !.pc = "done", !.err = err]

\* calls come one after another
Init ==
    /\ conc = FALSE
    /\ bypassEnabled \in BOOLEAN
    /\ store = EmptyStore
    /\ pool = <<>>
    /\ nonceLock = {}
    /\ started = 0
    /\ minted = <<>>
    /\ rejected = {}
    /\ calls = [h \in Handlers |-> Idle]

\* Validate with the amount test written "< 0"
ValidateZeroAmount(req) ==
    IF IsNil(req.Amount) \/ Val(req.Amount) < 0 THEN ErrInvalidAmount
    ELSE IF req.ProofData = <<>> THEN ErrMissingProof
    ELSE IF IsNotExist(Stat(req.ProofData)) THEN ErrProofNotFound
    ELSE IF IsNotExist(Stat(VkPath(req.ProofData))) THEN ErrVkNotFound
    ELSE ""

\* Validate without the test for an empty ProofData
ValidateNoEmptyTest(req) ==
    IF IsNil(req.Amount) \/ Val(req.Amount) <= 0 THEN ErrInvalidAmount
    ELSE IF IsNotExist(Stat(req.ProofData)) THEN ErrProofNotFound
    ELSE IF IsNotExist(Stat(VkPath(req.ProofData))) THEN ErrVkNotFound
    ELSE ""

\* Validate with the ProofData test before the amount test
ValidateProofFirst(req) ==
    IF req.ProofData = <<>> THEN ErrMissingProof
    ELSE IF IsNil(req.Amount) \/ Val(req.Amount) <= 0 THEN ErrInvalidAmount
    ELSE IF IsNotExist(Stat(req.ProofData)) THEN ErrProofNotFound
    ELSE IF IsNotExist(Stat(VkPath(req.ProofData))) THEN ErrVkNotFound
    ELSE ""

\* mint.go:139-159: a request arrives and is validated
Validate(req) ==
    IF IsNil(req.Amount) \/ Val(req.Amount) <= 0 THEN ErrInvalidAmount
    ELSE IF req.ProofData = <<>> THEN ErrMissingProof
    ELSE IF IsNotExist(Stat(req.ProofData)) THEN ErrProofNotFound
    ELSE IF IsNotExist(Stat(VkPath(req.ProofData))) THEN ErrVkNotFound
    ELSE ""

Mint(h, req) ==
    /\ calls[h].pc = "idle"
    /\ \A g \in Handlers : g < h => calls[g].pc # "idle"
    /\ started < MaxCalls
    /\ conc \/ \A g \in Handlers : calls[g].pc = "idle"
    /\ started' = started + 1
    /\ LET call == [Idle EXCEPT !.req = Some(req), !.before = store, !.callNo = started + 1]
           err == Validate(req)
       IN  calls' = [calls EXCEPT ![h] =
                IF err # "" THEN Fail(call, err) ELSE [call EXCEPT !.pc = "resolve"]]
    /\ UNCHANGED <<conc, bypassEnabled, store, pool, nonceLock, minted, rejected>>

\* Resolve with the secret looked at before the explicit nullifier
ResolveSecretFirst(req) ==
    IF ~IsNil(req.Secret) THEN Some(computeNullifier(Val(req.Secret)))
    ELSE IF ~IsNil(req.Nullifier) THEN req.Nullifier
    ELSE LET publicInputs == extractPublicInputs(req.ProofData) IN
         IF IsNil(publicInputs) THEN Nil
         ELSE IF "nullifier" \in DOMAIN Val(publicInputs)
                 /\ Val(publicInputs)["nullifier"].type = "string"
              THEN UnmarshalText(Val(publicInputs)["nullifier"].text)
         ELSE Nil

\* mint.go:161-181: the nullifier of the request, Nil when none is found
Resolve(req) ==
    IF ~IsNil(req.Nullifier) THEN req.Nullifier
    ELSE IF ~IsNil(req.Secret) THEN Some(computeNullifier(Val(req.Secret)))
    ELSE LET publicInputs == extractPublicInputs(req.ProofData) IN
         IF IsNil(publicInputs) THEN Nil
         ELSE IF "nullifier" \in DOMAIN Val(publicInputs)
                 /\ Val(publicInputs)["nullifier"].type = "string"
              THEN UnmarshalText(Val(publicInputs)["nullifier"].text)
         ELSE Nil

\* extractPublicInputs, and its readFile, run only in the last branch
ReadsOfResolve(req) == IF IsNil(req.Nullifier) /\ IsNil(req.Secret) THEN 1 ELSE 0

ResolveNullifier(h) ==
    /\ calls[h].pc = "resolve"
    /\ LET nullifier == Resolve(Req(h)) IN
       calls' = [calls EXCEPT ![h].nullifier = nullifier,
                              ![h].eff.reads = @ + ReadsOfResolve(Req(h)),
                              ![h].pc = IF HasNullifier(nullifier) THEN "check" ELSE "verify"]
    /\ UNCHANGED <<conc, bypassEnabled, store, pool, nonceLock, started, minted, rejected>>

\* Used with the length test written "> 1"
UsedLongValue(db, nullifier) ==
    LET value == Get(db, getNullifierKey(nullifier)) IN
    ~IsNil(value) /\ Len(Val(value)) > 1

\* mint.go:183-195: the replay pre-check
Used(db, nullifier) ==
    LET value == Get(db, getNullifierKey(nullifier)) IN
    ~IsNil(value) /\ Len(Val(value)) > 0

\* InPlace with the prefix in an array of 16 bytes, six of them spare
InPlaceSpare(bytes) == Len(nullifierPrefix) + Len(bytes) <= 16

\* mint.go:133: append(nullifierPrefix, bytes...) writes after the prefix, in
\* the array of nullifierPrefix, and returns a slice of that array when the
\* result fits in the capacity; it fills and returns a fresh array otherwise
InPlace(bytes) == Len(nullifierPrefix) + Len(bytes) <= capNullifierPrefix

\* a key that is a slice of the array of nullifierPrefix, as it reads after
\* another append(nullifierPrefix, bytes...) wrote into that array
Clobber(key, bytes) ==
    [i \in 1..Len(key) |->
        IF i > Len(nullifierPrefix) /\ i - Len(nullifierPrefix) <= Len(bytes)
        THEN bytes[i - Len(nullifierPrefix)]
        ELSE key[i]]

\* the bytes of a key after the prefix
KeyTail(key) == SubSeq(key, Len(nullifierPrefix) + 1, Len(key))

\* mint.go:186, 226: the calls after h ran getNullifierKey and stands at pc
\* with its key. An append in place writes h's bytes into the array of
\* nullifierPrefix, and with it into the key of every call that holds a slice
\* of that array between its own getNullifierKey and its store call; an
\* append into a fresh array touches no other key
AppendKey(h, pc) ==
    LET bytes == Val(calls[h].nullifier) IN
    [g \in Handlers |->
        IF g = h
        THEN [calls[h] EXCEPT !.key = Some(getNullifierKey(bytes)), !.pc = pc]
        ELSE IF /\ InPlace(bytes)
                /\ calls[g].pc \in {"checkget", "commitput"}
                /\ InPlace(Val(calls[g].nullifier))
        THEN [calls[g] EXCEPT !.key = Some(Clobber(Val(@), bytes))]
        ELSE calls[g]]

\* mint.go:189-194: db.Get(nullifierKey) with the bytes the key holds now
Lookup(call) ==
    LET got == [call EXCEPT !.eff.gets = @ + 1] IN
    IF Used(store, KeyTail(Val(call.key)))
    THEN Fail(got, ErrNullifierAlreadyUsed)
    ELSE [got EXCEPT !.pc = "verify"]

\* mint.go:184-186: the guard, then nullifierKey := getNullifierKey(nullifier)
CheckReplay(h) ==
    /\ calls[h].pc = "check"
    /\ calls' = AppendKey(h, "checkget")
    /\ UNCHANGED <<conc, bypassEnabled, store, pool, nonceLock, started, minted, rejected>>

\* mint.go:189-194: db.Get(nullifierKey)
GetNullifier(h) ==
    /\ calls[h].pc = "checkget"
    /\ calls' = [calls EXCEPT ![h] = Lookup(@)]
    /\ UNCHANGED <<conc, bypassEnabled, store, pool, nonceLock, started, minted, rejected>>

\* Accepted with only an ExitError counted as a refusal
AcceptedUnlessExitError(req, exit) ==
    \/ exit # "exit1"
    \/ LET proofData == readFile(req.ProofData) IN
       ~IsNil(proofData) /\ Val(proofData).raw = "mock-proof-data"

\* mint.go:197-222: "bb verify" runs; exit is "exit0", "exit1" (an
\* exec.ExitError) or "launch" (the command could not be run)
Accepted(req, exit) ==
    \/ exit = "exit0"
    \/ LET proofData == readFile(req.ProofData) IN
       ~IsNil(proofData) /\ Val(proofData).raw = "mock-proof-data"

\* VerifyProof with the nullifier recorded before the verdict is looked at
VerifyProofCommitFirst(h) ==
    /\ calls[h].pc = "verify"
    /\ \E exit \in {"exit0", "exit1", "launch"} :
        /\ LET call == [calls[h] EXCEPT !.eff.verifies = @ + 1, !.exit = exit,
                                         !.eff.reads = @ + (IF exit = "exit0" THEN 0 ELSE 1)] IN
           calls' = [calls EXCEPT ![h] =
            IF Accepted(Req(h), exit)
            THEN [call EXCEPT !.bypassed = (exit # "exit0"),
                              !.pc = IF HasNullifier(call.nullifier) THEN "commit" ELSE "nonce"]
            ELSE Fail(call, ErrProofVerificationFailed)]
        /\ rejected' = IF ~Accepted(Req(h), exit) /\ HasNullifier(calls[h].nullifier)
                       THEN rejected \cup {Val(calls[h].nullifier)} ELSE rejected
        /\ store' = IF HasNullifier(calls[h].nullifier)
                    THEN Put(store, getNullifierKey(Val(calls[h].nullifier)), <<1>>)
                    ELSE store
    /\ UNCHANGED <<conc, bypassEnabled, pool, nonceLock, started, minted>>

VerifyProof(h) ==
    /\ calls[h].pc = "verify"
    /\ \E exit \in {"exit0", "exit1", "launch"} :
        /\ LET call == [calls[h] EXCEPT !.eff.verifies = @ + 1, !.exit = exit,
                                         !.eff.reads = @ + (IF exit = "exit0" THEN 0 ELSE 1)] IN
           calls' = [calls EXCEPT ![h] =
            IF Accepted(Req(h), exit)
            THEN [call EXCEPT !.bypassed = (exit # "exit0"),
                              !.pc = IF HasNullifier(call.nullifier) THEN "commit" ELSE "nonce"]
            ELSE Fail(call, ErrProofVerificationFailed)]
        /\ rejected' = IF ~Accepted(Req(h), exit) /\ HasNullifier(calls[h].nullifier)
                       THEN rejected \cup {Val(calls[h].nullifier)} ELSE rejected
    /\ UNCHANGED <<conc, bypassEnabled, store, pool, nonceLock, started, minted>>

\* mint.go:230-236: db.Put(nullifierKey, []byte{1}) with the bytes the key
\* holds now; a Put error is logged and ignored
Record(db, call, putOk) ==
    [store |-> IF putOk THEN Put(db, Val(call.key), <<1>>) ELSE db,
     call |-> [call EXCEPT !.eff.puts = @ + 1, !.putErr = ~putOk, !.pc = "nonce"]]

\* mint.go:225-226: the guard, then nullifierKey := getNullifierKey(nullifier)
CommitNullifier(h) ==
    /\ calls[h].pc = "commit"
    /\ calls' = AppendKey(h, "commitput")
    /\ UNCHANGED <<conc, bypassEnabled, store, pool, nonceLock, started, minted, rejected>>

\* mint.go:230-236: db.Put(nullifierKey, []byte{1}), which may fail
PutNullifier(h) ==
    /\ calls[h].pc = "commitput"
    /\ \E putOk \in BOOLEAN :
        LET done == Record(store, calls[h], putOk) IN
        /\ store' = done.store
        /\ calls' = [calls EXCEPT ![h] = done.call]
    /\ UNCHANGED <<conc, bypassEnabled, pool, nonceLock, started, minted, rejected>>

\* FetchNonce taking the nullifier out of the store again when the fetch fails
FetchNonceRollback(h) ==
    /\ calls[h].pc = "nonce"
    /\ \E ok \in BOOLEAN :
        /\ LET call == [calls[h] EXCEPT !.eff.nonces = @ + 1] IN
           calls' = [calls EXCEPT ![h] =
            IF ok THEN [call EXCEPT !.nonce = Some(GetPoolNonce(pool)), !.pc = "send"]
            ELSE Fail(call, ErrGetPoolNonce)]
        /\ store' = IF ~ok /\ HasNullifier(calls[h].nullifier)
                    THEN [k \in DOMAIN store \ {getNullifierKey(Val(calls[h].nullifier))}
                            |-> store[k]]
                    ELSE store
    /\ UNCHANGED <<conc, bypassEnabled, pool, nonceLock, started, minted, rejected>>

\* mint.go:243-248
FetchNonce(h) ==
    /\ calls[h].pc = "nonce"
    /\ \E ok \in BOOLEAN :
        LET call == [calls[h] EXCEPT !.eff.nonces = @ + 1] IN
        calls' = [calls EXCEPT ![h] =
            IF ok THEN [call EXCEPT !.nonce = Some(GetPoolNonce(pool)), !.pc = "send"]
            ELSE Fail(call, ErrGetPoolNonce)]
    /\ UNCHANGED <<conc, bypassEnabled, store, pool, nonceLock, started, minted, rejected>>

\* mint.go:250-285: build, sign, submit, answer
MintResponse(tx, nullifier) ==
    [TxHash |-> tx, Nullifier |-> IF IsNil(nullifier) THEN Big0 ELSE Val(nullifier)]

SignAndSend(h) ==
    /\ calls[h].pc = "send"
    /\ LET tx == NewTransaction(Val(calls[h].nonce), Req(h)) IN
       \E outcome \in {"signErr", "sendErr", "sent"} :
        /\ pool' = IF outcome = "sent" THEN SendTx(pool, tx) ELSE pool
        /\ minted' = IF outcome = "sent"
                     THEN Append(minted, [secret |-> Req(h).Secret,
                                          explicit |-> Req(h).Nullifier,
                                          resp |-> MintResponse(tx, calls[h].nullifier)])
                     ELSE minted
        /\ calls' = [calls EXCEPT ![h] =
            IF outcome = "signErr" THEN Fail(@, ErrSignTx)
            ELSE IF outcome = "sendErr" THEN Fail([@ EXCEPT !.eff.sends = @ + 1], ErrSendTx)
            ELSE [@ EXCEPT !.eff.sends = @ + 1, !.pc = "done",
                           !.resp = Some(MintResponse(tx, calls[h].nullifier))]]
    /\ UNCHANGED <<conc, bypassEnabled, store, nonceLock, started, rejected>>

\* mint.go:139, 198-199: the caller cancels ctx while the call is inside
\* cmd.CombinedOutput(); the command was made by execCommand, without ctx, so
\* nothing in the call changes but the state of ctx
Cancel(h) ==
    /\ calls[h].pc = "verify"
    /\ ~calls[h].cancelled
    /\ calls[h].callNo <= MaxCancelled
    /\ calls' = [calls EXCEPT ![h].cancelled = TRUE]
    /\ UNCHANGED <<conc, bypassEnabled, store, pool, nonceLock, started, minted, rejected>>

\* the RPC server hands the answer to the caller; the slot is free again
Return(h) ==
    /\ calls[h].pc = "done"
    /\ calls' = [calls EXCEPT ![h] = Idle]
    /\ UNCHANGED <<conc, bypassEnabled, store, pool, nonceLock, started, minted, rejected>>

Next ==
    \/ \E h \in Handlers, req \in Requests : Mint(h, req)
    \/ \E h \in Handlers : ResolveNullifier(h)
    \/ \E h \in Handlers : CheckReplay(h)
    \/ \E h \in Handlers : GetNullifier(h)
    \/ \E h \in Handlers : Cancel(h)
    \/ \E h \in Handlers : VerifyProof(h)
    \/ \E h \in Handlers : CommitNullifier(h)
    \/ \E h \in Handlers : PutNullifier(h)
    \/ \E h \in Handlers : FetchNonce(h)
    \/ \E h \in Handlers : SignAndSend(h)
    \/ \E h \in Handlers : Return(h)

Spec == Init /\ [][Next]_vars

\* handlers overlap: every interleaving of the calls' steps
InitConcurrent ==
    /\ conc = TRUE
    /\ bypassEnabled = FALSE
    /\ store = EmptyStore
    /\ pool = <<>>
    /\ nonceLock = {}
    /\ started = 0
    /\ minted = <<>>
    /\ rejected = {}
    /\ calls = [h \in Handlers |-> Idle]

SpecConcurrent == InitConcurrent /\ [][Next]_vars

\* calls one after another, with the steps Mint takes by itself scheduled
\* fairly; when a request arrives, when its caller cancels and when the
\* verifier process ends is not for Mint to decide
Fairness ==
    \A h \in Handlers :
        /\ WF_vars(ResolveNullifier(h))
        /\ WF_vars(CheckReplay(h))
        /\ WF_vars(GetNullifier(h))
        /\ WF_vars(CommitNullifier(h))
        /\ WF_vars(PutNullifier(h))
        /\ WF_vars(FetchNonce(h))
        /\ WF_vars(SignAndSend(h))
        /\ WF_vars(Return(h))

SpecLive == Init /\ [][Next]_vars /\ Fairness

----------------------------------------------------------------------------
(* Properties *)

Done(h) == calls[h].pc = "done"
Succeeded(h) == Done(h) /\ calls[h].err = ""
Returned(h, err) == Done(h) /\ calls[h].err = err /\ IsNil(calls[h].resp)
Resolved(h) == calls[h].pc \notin {"idle", "resolve"} /\ HasNullifier(calls[h].nullifier)
ValidAmount(req) == ~IsNil(req.Amount) /\ Val(req.Amount) > 0
Committed(db, nullifier) ==
    getNullifierKey(nullifier) \in DOMAIN db /\ db[getNullifierKey(nullifier)] # <<>>
IsSentinel(path) == ~IsNil(readFile(path)) /\ Val(readFile(path)).raw = "mock-proof-data"

\* C1: of two overlapping Mint calls that resolve to the same nullifier (> 0),
\* both of whose store writes succeed, at most one returns success.
C1_OneSuccessPerNullifier ==
    \A h, g \in Handlers :
        (/\ h # g
         /\ Resolved(h) /\ Resolved(g)
         /\ calls[h].nullifier = calls[g].nullifier
         /\ ~calls[h].putErr /\ ~calls[g].putErr)
        => ~(Succeeded(h) /\ Succeeded(g))

\* C2: a call that began when its nullifier (> 0) was already committed
\* returns ErrNullifierAlreadyUsed, and neither runs the verifier nor fetches
\* a nonce nor submits a transaction.
C2_CommittedNullifierRejected ==
    \A h \in Handlers :
        (Resolved(h) /\ Committed(calls[h].before, Val(calls[h].nullifier)))
        => \/ calls[h].pc \in {"check", "checkget"}
           \/ /\ Returned(h, ErrNullifierAlreadyUsed)
              /\ calls[h].eff.verifies = 0
              /\ calls[h].eff.nonces = 0
              /\ calls[h].eff.sends = 0
              /\ calls[h].eff.puts = 0

\* a call whose nullifier comes from its proof artifact was refused after an
\* earlier call minted with the nullifier of the same artifact
C2_Witness ==
    \E h \in Handlers :
        /\ Returned(h, ErrNullifierAlreadyUsed)
        /\ Committed(calls[h].before, Val(calls[h].nullifier))
        /\ IsNil(Req(h).Nullifier)
        /\ IsNil(Req(h).Secret)
        /\ \E i \in 1..Len(minted) :
            /\ minted[i].resp.Nullifier = Val(calls[h].nullifier)
            /\ IsNil(minted[i].explicit)
            /\ IsNil(minted[i].secret)

\* C3: the nonces of the submitted transactions are pairwise distinct and
\* are exactly the run 0, 1, ... from the account's pending nonce.
C3_GaplessDistinctNonces ==
    /\ \A i, j \in 1..Len(minted) :
        i # j => minted[i].resp.TxHash.nonce # minted[j].resp.TxHash.nonce
    /\ {minted[i].resp.TxHash.nonce : i \in 1..Len(minted)} = 0..(Len(minted) - 1)

\* C4: at most one Mint call is between its GetPoolNonce and the return of
\* its SendTx.
C4_IssuanceSerialized ==
    Cardinality({h \in Handlers : calls[h].pc = "send"}) <= 1

\* C5: no two successful Mint calls carry the same secret.
C5_SecretRedeemedOnce ==
    \A i, j \in 1..Len(minted) :
        (i # j /\ ~IsNil(minted[i].secret)) => minted[i].secret # minted[j].secret

\* C6: a call answered ErrProofVerificationFailed wrote nothing: the store is
\* as it was when the call began, and the call's nullifier is not in it.
C6_FailedProofBurnsNothing ==
    \A h \in Handlers :
        Returned(h, ErrProofVerificationFailed)
        => /\ store = calls[h].before
           /\ calls[h].eff.puts = 0
           /\ HasNullifier(calls[h].nullifier) => ~Committed(store, Val(calls[h].nullifier))

\* a call succeeded with a nullifier for which an earlier call's proof failed
C6_Witness ==
    \E h \in Handlers :
        /\ Succeeded(h)
        /\ HasNullifier(calls[h].nullifier)
        /\ Val(calls[h].nullifier) \in rejected

\* C7: a call whose amount is absent or <= 0 returns the invalid-amount
\* error and no response, and touches neither store, verifier nor backend.
C7_InvalidAmount ==
    \A h \in Handlers :
        (calls[h].pc # "idle" /\ ~ValidAmount(Req(h)))
        => /\ Returned(h, ErrInvalidAmount)
           /\ calls[h].eff = NoEffects
           /\ store = calls[h].before

\* a zero amount was refused on a request that is valid otherwise, while the
\* store already held a nullifier
C7_Witness ==
    \E h \in Handlers :
        /\ Returned(h, ErrInvalidAmount)
        /\ Req(h).Amount = Some(0)
        /\ Validate([Req(h) EXCEPT !.Amount = Some(2)]) = ""
        /\ store # EmptyStore

\* C8: a call with a positive amount and an empty ProofData returns the
\* missing-proof error and no response, and touches neither store, verifier
\* nor backend.
C8_MissingProof ==
    \A h \in Handlers :
        (calls[h].pc # "idle" /\ ValidAmount(Req(h)) /\ Req(h).ProofData = <<>>)
        => /\ Returned(h, ErrMissingProof)
           /\ calls[h].eff = NoEffects
           /\ store = calls[h].before

C8_Witness ==
    \E h \in Handlers :
        /\ Returned(h, ErrMissingProof)
        /\ ~IsNil(Req(h).Nullifier)
        /\ store # EmptyStore

\* C9: a call whose proof file, or whose verification key, os.Stat does not
\* find returns ProofNotFound, respectively VerificationKeyNotFound, and
\* touches neither store, verifier nor backend.
C9_ArtifactsMustExist ==
    \A h \in Handlers :
        (calls[h].pc # "idle" /\ ValidAmount(Req(h)) /\ Req(h).ProofData # <<>>)
        => /\ Stat(Req(h).ProofData) # "ok"
              => Returned(h, ErrProofNotFound) /\ calls[h].eff = NoEffects
           /\ (Stat(Req(h).ProofData) = "ok" /\ Stat(VkPath(Req(h).ProofData)) # "ok")
              => Returned(h, ErrVkNotFound) /\ calls[h].eff = NoEffects

\* C10: the sentinel artifact passes by the bypass only where the bypass is
\* enabled; where it is disabled, a call with the sentinel artifact and a
\* verifier that did not exit with status zero returns
\* ErrProofVerificationFailed and submits nothing.
C10_BypassGated ==
    \A h \in Handlers :
        /\ calls[h].bypassed => bypassEnabled
        /\ (/\ Done(h)
            /\ ~bypassEnabled
            /\ IsSentinel(Req(h).ProofData)
            /\ calls[h].exit \in {"exit1", "launch"})
           => Returned(h, ErrProofVerificationFailed) /\ calls[h].eff.sends = 0

\* C11: when the verifier cannot be launched, or it failed and the proof
\* artifact cannot be read, the call returns ErrProofVerificationFailed and
\* has committed no nullifier, fetched no nonce and submitted no transaction,
\* whatever the artifact holds.
C11_LaunchFailureNeverAccepted ==
    \A h \in Handlers :
        (\/ calls[h].exit = "launch"
         \/ calls[h].exit = "exit1" /\ IsNil(readFile(Req(h).ProofData)))
        => /\ Returned(h, ErrProofVerificationFailed)
           /\ calls[h].eff.puts = 0
           /\ calls[h].eff.nonces = 0
           /\ calls[h].eff.sends = 0

\* C12: a successful call has called SendTx once, with a transaction to the
\* request's address, of the request's amount, from the minting identity, with
\* gas limit 21000 and gas price 1; the pool holds one transaction per
\* successful call, the last of them the one the response names; the
\* response's nullifier is the resolved nullifier (0 when there is none).
C12_SuccessSubmitsOneTransaction ==
    /\ Len(pool) = Len(minted)
    /\ \A h \in Handlers : Succeeded(h) =>
        LET resp == Val(calls[h].resp)
            tx == resp.TxHash
            nullifier == Resolve(Req(h))
        IN  /\ calls[h].eff.sends = 1
            /\ tx.to = Req(h).To
            /\ tx.value = Val(Req(h).Amount)
            /\ tx.from = minterAddress
            /\ tx.gas = 21000
            /\ tx.gasPrice = 1
            /\ Len(pool) > 0 /\ pool[Len(pool)] = tx
            /\ resp.Nullifier = IF IsNil(nullifier) THEN Big0 ELSE Val(nullifier)

\* the second successful call, with a nullifier
C12_Witness ==
    \E h \in Handlers :
        /\ Succeeded(h)
        /\ HasNullifier(calls[h].nullifier)
        /\ Len(pool) = 2

\* the call has been through the resolution of mint.go:161-181
PastResolve(h) ==
    /\ calls[h].pc \notin {"idle", "resolve"}
    /\ calls[h].err \notin {ErrInvalidAmount, ErrMissingProof, ErrProofNotFound, ErrVkNotFound}

\* the readFile of mint.go:207, made when the verifier returned an error
ReadsOfVerify(h) == IF calls[h].exit \in {"exit1", "launch"} THEN 1 ELSE 0

\* 0x1234567890abcdef
MockNullifier == <<18, 52, 86, 120, 144, 171, 205, 239>>

\* C13: an explicit nullifier is the resolved nullifier, whatever the secret
\* and the artifact, and the artifact is not read for it; without one, a
\* secret gives computeNullifier(secret), and the artifact is not read for it;
\* without both, the artifact is read, and its "nullifier" public input is the
\* resolved nullifier: 0x1234567890abcdef for the sentinel fixture, 0x2 for the
\* JSON artifact with "nullifier":"0x2".
C13_ResolutionPrecedence ==
    \A h \in Handlers : PastResolve(h) =>
        LET req == Req(h) IN
        /\ ~IsNil(req.Nullifier)
           => /\ calls[h].nullifier = req.Nullifier
              /\ calls[h].eff.reads = ReadsOfVerify(h)
        /\ (IsNil(req.Nullifier) /\ ~IsNil(req.Secret))
           => /\ calls[h].nullifier = Some(computeNullifier(Val(req.Secret)))
              /\ calls[h].eff.reads = ReadsOfVerify(h)
        /\ (IsNil(req.Nullifier) /\ IsNil(req.Secret))
           => /\ calls[h].eff.reads = 1 + ReadsOfVerify(h)
              /\ IsSentinel(req.ProofData)
                 => calls[h].nullifier = Some(MockNullifier)
              /\ req.ProofData = <<"json", "proof">>
                 => calls[h].nullifier = Some(<<2>>)

\* a request with an explicit nullifier, a secret and the sentinel fixture
\* resolved to the explicit nullifier
C13_Witness ==
    \E h \in Handlers :
        /\ PastResolve(h)
        /\ ~IsNil(Req(h).Nullifier)
        /\ ~IsNil(Req(h).Secret)
        /\ IsSentinel(Req(h).ProofData)
        /\ calls[h].nullifier = Req(h).Nullifier
        /\ calls[h].nullifier # Some(computeNullifier(Val(Req(h).Secret)))

\* C14: a step in which a call fails at the nonce fetch, the signing or the
\* submission returns that error and no response, and leaves pool, minted and
\* store as they were; no step takes a key out of the store or changes its
\* value; and a call at the replay pre-check whose nullifier is committed
\* returns ErrNullifierAlreadyUsed.
C14_BackendFailureKeepsNullifier ==
    [][\A h \in Handlers :
        /\ (calls[h].pc \in {"nonce", "send"} /\ calls'[h].pc = "done" /\ calls'[h].err # "")
           => /\ calls'[h].err =
                    IF calls[h].pc = "nonce" THEN ErrGetPoolNonce
                    ELSE IF calls'[h].eff.sends = 0 THEN ErrSignTx ELSE ErrSendTx
              /\ IsNil(calls'[h].resp)
              /\ pool' = pool
              /\ minted' = minted
              /\ store' = store
        /\ \A k \in DOMAIN store : k \in DOMAIN store' /\ store'[k] = store[k]
        /\ (/\ calls[h].pc \in {"check", "checkget"}
            /\ calls'[h].eff.gets = calls[h].eff.gets + 1
            /\ Committed(store, Val(calls[h].nullifier)))
           => /\ calls'[h].pc = "done"
              /\ calls'[h].err = ErrNullifierAlreadyUsed
              /\ IsNil(calls'[h].resp)
      ]_vars

\* a call was refused for a nullifier that is in the store though no mint
\* ever succeeded with it and no proof was refused for it: an earlier call
\* committed it and failed at the backend
C14_Witness ==
    \E h \in Handlers :
        /\ Returned(h, ErrNullifierAlreadyUsed)
        /\ Committed(store, Val(calls[h].nullifier))
        /\ \A i \in 1..Len(minted) : minted[i].resp.Nullifier # Val(calls[h].nullifier)
        /\ pool = <<>>

\* C16: a call with a nullifier > 0 that is about to fetch the nonce, about to
\* submit, or has succeeded, has its nullifier in the store.
C16_CommitPrecedesIssuance ==
    \A h \in Handlers :
        (/\ HasNullifier(calls[h].nullifier)
         /\ calls[h].pc \in {"nonce", "send"} \/ Succeeded(h))
        => Committed(store, Val(calls[h].nullifier))

\* C17: a call whose Put returned an error submits no transaction and, once
\* done, has returned an error.
C17_PutErrorFailsMint ==
    \A h \in Handlers :
        calls[h].putErr
        => /\ calls[h].eff.sends = 0
           /\ Done(h) => calls[h].err # "" /\ IsNil(calls[h].resp)

\* the call went on after the verification step
Proceeded(h) ==
    \/ calls[h].pc \in {"commit", "commitput", "nonce", "send"}
    \/ Done(h) /\ calls[h].err # ErrProofVerificationFailed

\* C18: for an artifact that is not the sentinel fixture, a call that has run
\* the verifier goes on to commit and issuance exactly when the verifier exited
\* with status zero; otherwise it returns ErrProofVerificationFailed and has
\* written no nullifier, fetched no nonce and submitted no transaction.
C18_ExitStatusDecides ==
    \A h \in Handlers :
        (calls[h].exit # "none" /\ ~IsSentinel(Req(h).ProofData))
        => /\ Proceeded(h) <=> calls[h].exit = "exit0"
           /\ calls[h].exit # "exit0"
              => /\ Returned(h, ErrProofVerificationFailed)
                 /\ calls[h].eff.puts = 0
                 /\ calls[h].eff.nonces = 0
                 /\ calls[h].eff.sends = 0

\* both cases: a nonzero exit refused, and a zero exit gone on to a mint, for
\* artifacts that are not the fixture
C18_Witness ==
    /\ \E h \in Handlers :
        /\ calls[h].exit = "exit1"
        /\ ~IsSentinel(Req(h).ProofData)
        /\ HasNullifier(calls[h].nullifier)
        /\ Returned(h, ErrProofVerificationFailed)
    /\ \E i \in 1..Len(minted) :
        /\ IsNil(minted[i].explicit)
        /\ minted[i].resp.Nullifier = <<2>>

\* C19: the error of a call is the first one met in the order amount,
\* ProofData, proof file, verification key, replay pre-check, verification,
\* nonce fetch, signing, submission; a call that returned an error has done
\* none of the later steps; no step is done twice.
C19_FirstErrorInOrder ==
    \A h \in Handlers : calls[h].pc # "idle" =>
        LET req == Req(h)
            err == calls[h].err
            eff == calls[h].eff
        IN
        /\ ~ValidAmount(req) => Returned(h, ErrInvalidAmount) /\ eff = NoEffects
        /\ (ValidAmount(req) /\ req.ProofData = <<>>)
           => Returned(h, ErrMissingProof) /\ eff = NoEffects
        /\ (ValidAmount(req) /\ req.ProofData # <<>> /\ Stat(req.ProofData) = "ENOENT")
           => Returned(h, ErrProofNotFound) /\ eff = NoEffects
        /\ (/\ ValidAmount(req) /\ req.ProofData # <<>>
            /\ Stat(req.ProofData) # "ENOENT"
            /\ Stat(VkPath(req.ProofData)) = "ENOENT")
           => Returned(h, ErrVkNotFound) /\ eff = NoEffects
        /\ err # "" => Done(h) /\ IsNil(calls[h].resp)
        /\ err = ErrNullifierAlreadyUsed
           => eff.gets = 1 /\ eff.verifies = 0 /\ eff.puts = 0 /\ eff.nonces = 0 /\ eff.sends = 0
        /\ err = ErrProofVerificationFailed
           => eff.verifies = 1 /\ eff.puts = 0 /\ eff.nonces = 0 /\ eff.sends = 0
        /\ err = ErrGetPoolNonce => eff.nonces = 1 /\ eff.sends = 0
        /\ err = ErrSignTx => eff.nonces = 1 /\ eff.sends = 0
        /\ err = ErrSendTx => eff.nonces = 1 /\ eff.sends = 1
        /\ \A f \in {"gets", "puts", "verifies", "nonces", "sends"} : eff[f] <= 1
        /\ eff.sends = 1 => eff.nonces = 1
        /\ eff.nonces = 1 => eff.verifies = 1
        /\ eff.puts = 1 => eff.verifies = 1 /\ eff.gets = 1

\* a request with an invalid amount and an empty ProofData got the
\* invalid-amount error
C19_Witness ==
    \E h \in Handlers :
        /\ Returned(h, ErrInvalidAmount)
        /\ Req(h).ProofData = <<>>
        /\ Req(h).Amount = Some(-1)

\* neither an explicit nullifier nor a secret, and an artifact that gives no
\* nullifier: unreadable, neither JSON nor the fixture, or JSON whose
\* "nullifier" is not a string or does not parse
NoNullifierFound(req) ==
    /\ IsNil(req.Nullifier)
    /\ IsNil(req.Secret)
    /\ LET data == readFile(req.ProofData) IN
       \/ IsNil(data)
       \/ IsNil(Val(data).json) /\ Val(data).raw # "mock-proof-data"
       \/ /\ ~IsNil(Val(data).json)
          /\ \/ "nullifier" \notin DOMAIN Val(Val(data).json)
             \/ Val(Val(data).json)["nullifier"].type # "string"
             \/ IsNil(UnmarshalText(Val(Val(data).json)["nullifier"].text))

\* C20: a call for which no nullifier is found goes from resolution to
\* verification, and on a zero exit to issuance; it never calls Get or Put and
\* leaves the store as it was; its response, on success, has nullifier 0.
C20_NoNullifierNoGuard ==
    \A h \in Handlers : (PastResolve(h) /\ NoNullifierFound(Req(h))) =>
        /\ IsNil(calls[h].nullifier)
        /\ calls[h].pc \notin {"check", "checkget", "commit", "commitput"}
        /\ calls[h].eff.gets = 0
        /\ calls[h].eff.puts = 0
        /\ store = calls[h].before
        /\ calls[h].err # ErrNullifierAlreadyUsed
        /\ calls[h].exit = "exit0" => Proceeded(h)
        /\ Succeeded(h) => Val(calls[h].resp).Nullifier = Big0

\* the same artifact without a nullifier was minted on twice
C20_Witness ==
    \E h \in Handlers :
        /\ Succeeded(h)
        /\ NoNullifierFound(Req(h))
        /\ Len(minted) = 2
        /\ \A i \in 1..2 :
            /\ IsNil(minted[i].explicit)
            /\ IsNil(minted[i].secret)
            /\ minted[i].resp.Nullifier = Big0
        /\ store = EmptyStore

\* the call's Put has just returned without an error
PutDone(h) ==
    /\ calls'[h].eff.puts = calls[h].eff.puts + 1
    /\ ~calls'[h].putErr

\* C21: a step that changes the store is the successful Put of one call; it
\* keeps every key with its value and adds, or writes again, exactly the key
\* "nullifier-" followed by the bytes of that call's resolved nullifier, with
\* the value 1; so every key of the store begins with "nullifier-" and has
\* the value 1 for ever.
C21_StoreOnlyGrows ==
    [][/\ \A k \in DOMAIN store : k \in DOMAIN store' /\ store'[k] = store[k]
       /\ store' # store
          => \E h \in Handlers :
                /\ PutDone(h)
                /\ ~IsNil(calls[h].nullifier)
                /\ Val(calls[h].nullifier) = Val(Resolve(Req(h)))
                /\ LET key == nullifierPrefix \o Val(calls[h].nullifier) IN
                   /\ DOMAIN store' = DOMAIN store \cup {key}
                   /\ store'[key] = <<1>>
       /\ \A k \in DOMAIN store' :
            /\ Len(k) > Len(nullifierPrefix)
            /\ SubSeq(k, 1, Len(nullifierPrefix)) = nullifierPrefix
            /\ store'[k] = <<1>>
      ]_vars

\* a call that committed its nullifier and then failed at the submission left
\* the store with its key and the key of an earlier call
C21_Witness ==
    \E h \in Handlers :
        /\ Returned(h, ErrSendTx)
        /\ calls[h].eff.puts = 1
        /\ nullifierPrefix \o Val(calls[h].nullifier) \in DOMAIN store
        /\ Cardinality(DOMAIN store) = 2

\* C24: a call whose nullifier resolved to 0 never comes to the replay
\* pre-check or to the commit, makes no Get and no Put, leaves the store as it
\* was, is never answered ErrNullifierAlreadyUsed and, on success, answers
\* with nullifier 0.
C24_ZeroNullifierUnguarded ==
    \A h \in Handlers : (PastResolve(h) /\ calls[h].nullifier = Some(Big0)) =>
        /\ calls[h].pc \notin {"check", "checkget", "commit", "commitput"}
        /\ calls[h].eff.gets = 0
        /\ calls[h].eff.puts = 0
        /\ store = calls[h].before
        /\ calls[h].err # ErrNullifierAlreadyUsed
        /\ calls[h].exit = "exit0" => Proceeded(h)
        /\ Succeeded(h) => Val(calls[h].resp).Nullifier = Big0

\* two successive calls with explicit nullifier 0 both succeeded with
\* nullifier 0
C24_Witness ==
    \E h \in Handlers :
        /\ Succeeded(h)
        /\ Req(h).Nullifier = Some(Big0)
        /\ Len(minted) = 2
        /\ \A i \in 1..2 :
            /\ minted[i].explicit = Some(Big0)
            /\ minted[i].resp.Nullifier = Big0
        /\ store = EmptyStore

\* C22: a call whose context is cancelled while it waits for the verifier
\* eventually returns an error, that same call, whether the verifier process
\* ever ends or not, and has committed no nullifier and submitted no
\* transaction.
C22_CancellationReachesVerifier ==
    \A h \in Handlers, n \in 1..MaxCalls :
        (calls[h].pc = "verify" /\ calls[h].cancelled /\ calls[h].callNo = n)
        ~> (/\ Done(h)
            /\ calls[h].callNo = n
            /\ calls[h].cancelled
            /\ calls[h].err # ""
            /\ calls[h].eff.puts = 0
            /\ calls[h].eff.sends = 0)

\* the call holds a key: it has run getNullifierKey and has not returned
HoldsKey(h) == ~IsNil(calls[h].key)

\* C23: from the moment a call builds its key until it returns, and so when it
\* passes the key to Get and to Put, the key is "nullifier-" followed by the
\* bytes of the call's own nullifier, whatever keys the other call builds
\* meanwhile from nullifierPrefix; two overlapping calls with different
\* nullifiers never hold, check or commit the same key.
C23_KeysDoNotInterfere ==
    \A h \in Handlers :
        /\ HoldsKey(h)
           => Val(calls[h].key) = nullifierPrefix \o Val(calls[h].nullifier)
        /\ \A g \in Handlers \ {h} :
            (/\ HoldsKey(h)
             /\ HoldsKey(g)
             /\ calls[h].nullifier # calls[g].nullifier)
            => calls[h].key # calls[g].key

\* two overlapping calls with different one-byte nullifiers, each between its
\* getNullifierKey and its store call: one of them built its key while the
\* other held its own, and the other is about to commit
C23_Witness ==
    \E h \in Handlers, g \in Handlers :
        /\ h # g
        /\ calls[h].pc = "checkget"
        /\ calls[g].pc = "commitput"
        /\ Len(Val(calls[h].nullifier)) = 1
        /\ Len(Val(calls[g].nullifier)) = 1
        /\ calls[h].nullifier # calls[g].nullifier
        /\ Val(calls[h].key) = nullifierPrefix \o Val(calls[h].nullifier)
        /\ Val(calls[g].key) = nullifierPrefix \o Val(calls[g].nullifier)

====
